---------------------------- MODULE Spec2Model ----------------------------
(***************************************************************************)
(* A model of dbt-yaml-description-validator:                              *)
(*   - the rules of validators/ (article, capital, period, spaces,         *)
(*     symbols) as operators on texts,                                      *)
(*   - runner.fix_yaml_file_in_place as a line scanner with its two loops,  *)
(*   - runner.main as the loop over the schema files.                       *)
(* A text is a sequence of one-character strings; "\n" is the line break.   *)
(***************************************************************************)
EXTENDS Integers, Sequences, FiniteSets, TLC

(***************************************************************************)
(* Python's str primitives, over the characters the model uses.            *)
(***************************************************************************)

\* str.isspace() of one character
WS == {" ", "\t", "\n"}

\* the lower-case letters and their upper-case forms, by position
LowerLetters ==
  <<"a", "b", "c", "d", "e", "f", "g", "h", "i", "j", "k", "l", "m", "n", "o", "p", "q", "r", "s", "t", "u", "v", "w", "x", "y", "z">>
UpperLetters ==
  <<"A", "B", "C", "D", "E", "F", "G", "H", "I", "J", "K", "L", "M", "N", "O", "P", "Q", "R", "S", "T", "U", "V", "W", "X", "Y", "Z">>

\* str.isupper() of one character
isupper(c) == \E k \in 1..Len(UpperLetters) : UpperLetters[k] = c

\* str.upper() of one character
upper(c) ==
  IF \E k \in 1..Len(LowerLetters) : LowerLetters[k] = c
  THEN UpperLetters[CHOOSE k \in 1..Len(LowerLetters) : LowerLetters[k] = c]
  ELSE c

\* str.lower() of one character
lower(c) ==
  IF \E k \in 1..Len(UpperLetters) : UpperLetters[k] = c
  THEN LowerLetters[CHOOSE k \in 1..Len(UpperLetters) : UpperLetters[k] = c]
  ELSE c

\* number of leading characters of s that are in set cs
LeadingIn(s, cs) ==
  IF \E k \in 1..Len(s) : s[k] \notin cs
  THEN (CHOOSE k \in 1..Len(s) : s[k] \notin cs /\ \A j \in 1..(k - 1) : s[j] \in cs) - 1
  ELSE Len(s)

\* number of trailing characters of s that are in set cs
TrailingIn(s, cs) ==
  IF \E k \in 1..Len(s) : s[k] \notin cs
  THEN Len(s) - (CHOOSE k \in 1..Len(s) : s[k] \notin cs /\ \A j \in (k + 1)..Len(s) : s[j] \in cs)
  ELSE Len(s)

\* s[n:] and s[:n] for 0 <= n
From(s, n) == IF n >= Len(s) THEN <<>> ELSE SubSeq(s, n + 1, Len(s))
Upto(s, n) == IF n >= Len(s) THEN s ELSE SubSeq(s, 1, n)

\* str.lstrip(), str.rstrip(), str.strip()
lstrip(s) == From(s, LeadingIn(s, WS))
rstrip(s) == SubSeq(s, 1, Len(s) - TrailingIn(s, WS))
strip(s) == lstrip(rstrip(s))

\* str.rstrip("\n")
rstrip_nl(s) == SubSeq(s, 1, Len(s) - TrailingIn(s, {"\n"}))

\* str.startswith, str.endswith
startswith(s, p) == Len(s) >= Len(p) /\ SubSeq(s, 1, Len(p)) = p
endswith(s, p) == Len(s) >= Len(p) /\ SubSeq(s, Len(s) - Len(p) + 1, Len(s)) = p

\* p in s (substring)
contains(s, p) == \E k \in 0..(Len(s) - Len(p)) : SubSeq(s, k + 1, k + Len(p)) = p

\* str.split("\n"): always at least one piece
RECURSIVE split_nl(_)
split_nl(s) ==
  IF \E k \in 1..Len(s) : s[k] = "\n"
  THEN LET k == CHOOSE k \in 1..Len(s) : s[k] = "\n" /\ \A j \in 1..(k - 1) : s[j] # "\n"
       IN  <<SubSeq(s, 1, k - 1)>> \o split_nl(From(s, k))
  ELSE <<s>>

\* str.splitlines(): no piece for the empty text, none after a final line break
splitlines(s) ==
  IF s = <<>> THEN <<>>
  ELSE LET p == split_nl(s)
       IN  IF p[Len(p)] = <<>> THEN SubSeq(p, 1, Len(p) - 1) ELSE p

\* "\n".join(ls)
RECURSIVE join_nl(_)
join_nl(ls) ==
  IF ls = <<>> THEN <<>>
  ELSE IF Len(ls) = 1 THEN ls[1]
  ELSE ls[1] \o <<"\n">> \o join_nl(Tail(ls))

\* " " * n
RECURSIVE spaces_of(_)
spaces_of(n) == IF n <= 0 THEN <<>> ELSE <<" ">> \o spaces_of(n - 1)

(***************************************************************************)
(* validators/article.py                                                   *)
(***************************************************************************)
ARTICLES == << <<"t", "h", "e", " ">>, <<"a", " ">>, <<"a", "n", " ">> >>

article_check(text) ==
  LET stripped == [k \in 1..Len(lstrip(text)) |-> lower(lstrip(text)[k])]
  IN  \E a \in 1..Len(ARTICLES) : startswith(stripped, ARTICLES[a])

(***************************************************************************)
(* validators/capital.py                                                   *)
(***************************************************************************)
capital_check(text) ==
  LET stripped == lstrip(text)
  IN  stripped # <<>> /\ isupper(stripped[1])

capital_fix(text) ==
  LET stripped == lstrip(text)
      idx == Len(text) - Len(stripped)
  IN  IF stripped = <<>> THEN text
      ELSE IF isupper(stripped[1]) THEN text
      ELSE <<upper(stripped[1])>> \o From(text, idx + 1)

(***************************************************************************)
(* validators/period.py                                                    *)
(***************************************************************************)
_contains_list_items(text) ==
  LET lines == splitlines(text)
  IN  \E k \in 1..Len(lines) : startswith(lstrip(lines[k]), <<"-", " ">>)

period_check(text) ==
  IF _contains_list_items(text) THEN TRUE
  ELSE LET all == splitlines(rstrip(text))
           lines == SelectSeq(all, LAMBDA l : strip(l) # <<>>)
       IN  IF lines = <<>> THEN TRUE
           ELSE endswith(rstrip(lines[Len(lines)]), <<".">>)

\* period.fix without its list branch: a period is added to every text
period_fix_without_list_branch(text) ==
  IF strip(text) = <<>> THEN text
  ELSE LET lines == splitlines(rstrip_nl(text))
           last == rstrip(lines[Len(lines)])
           newlast == IF ~endswith(last, <<".">>) THEN last \o <<".">> ELSE lines[Len(lines)]
           out == join_nl([lines EXCEPT ![Len(lines)] = newlast])
       IN  IF endswith(text, <<"\n">>) THEN out \o <<"\n">> ELSE out

period_fix(text) ==
  IF strip(text) = <<>> THEN text
  ELSE IF strip(text) \in { <<"'", "'">>, <<"\"", "\"">> } THEN text
  ELSE LET had_trailing_newline == endswith(text, <<"\n">>)
           lines == splitlines(rstrip_nl(text))
       IN  IF lines = <<>> THEN text
           ELSE LET last == rstrip(lines[Len(lines)])
                    newlast ==
                      IF _contains_list_items(text)
                      THEN IF endswith(last, <<".">>)
                           THEN SubSeq(last, 1, Len(last) - 1)
                           ELSE lines[Len(lines)]
                      ELSE IF ~endswith(last, <<".">>)
                           THEN last \o <<".">>
                           ELSE lines[Len(lines)]
                    out == join_nl([lines EXCEPT ![Len(lines)] = newlast])
                IN  IF had_trailing_newline THEN out \o <<"\n">> ELSE out

(***************************************************************************)
(* validators/spaces.py                                                    *)
(***************************************************************************)
\* the characters of the class [ \t]
HSPACE == {" ", "\t"}

\* _DOUBLE_SPACES matches at offset p of text (0-based): not at the start of
\* the text, not right after a line break, and two or more of [ \t] follow
double_spaces_at(text, p) ==
  /\ p # 0
  /\ text[p] # "\n"
  /\ p + 2 <= Len(text)
  /\ text[p + 1] \in HSPACE
  /\ text[p + 2] \in HSPACE

spaces_check(text) == ~\E p \in 0..Len(text) : double_spaces_at(text, p)

\* _DOUBLE_SPACES.sub(" ", text) scanning from offset p: leftmost matches, each
\* as long as it can be, replaced by one space
RECURSIVE double_spaces_sub(_, _)
double_spaces_sub(text, p) ==
  IF p >= Len(text) THEN <<>>
  ELSE IF double_spaces_at(text, p)
       THEN <<" ">> \o double_spaces_sub(text, p + LeadingIn(From(text, p), HSPACE))
       ELSE <<text[p + 1]>> \o double_spaces_sub(text, p + 1)

spaces_fix(text) == double_spaces_sub(text, 0)

(***************************************************************************)
(* validators/symbol.py                                                    *)
(***************************************************************************)
\* the ASCII members of the class; the pattern also lists the euro and pound signs
SYMBOL_PATTERN == {"$", "%", "#", "@", "&", "*", "^", "+", "~"}

symbol_check(text) == ~\E k \in 1..Len(text) : text[k] \in SYMBOL_PATTERN

(***************************************************************************)
(* validators/__init__.py: the registry                                    *)
(***************************************************************************)
RULES == {"article", "capital", "period", "symbols", "spaces"}

\* getattr(rule, "fix", None) is callable
has_fix(rule) == rule \in {"capital", "period", "spaces"}

rule_check(rule, text) ==
  CASE rule = "article" -> article_check(text)
    [] rule = "capital" -> capital_check(text)
    [] rule = "period"  -> period_check(text)
    [] rule = "spaces"  -> spaces_check(text)
    [] rule = "symbols" -> symbol_check(text)

rule_fix(rule, text) ==
  CASE rule = "capital" -> capital_fix(text)
    [] rule = "period"  -> period_fix(text)
    [] rule = "spaces"  -> spaces_fix(text)


(***************************************************************************)
(* runner.fix_yaml_file_in_place: the scan over the lines of one file.      *)
(* The locals of the function are the fields of a scan record:              *)
(*   lines, new_lines, i, modified, block_start, base_indent, and           *)
(*   pc: "ScanningLine" (outer loop), "InBlockScalar" (inner loop),         *)
(*       "Done" (both loops left);                                          *)
(*   fix_calls: the texts handed to fix_fn so far, in call order.           *)
(***************************************************************************)
DESCRIPTION_KEY == <<"d", "e", "s", "c", "r", "i", "p", "t", "i", "o", "n", ":">>

BLOCK_INDICATORS ==
  { <<"|">>, <<"|", "-">>, <<"|", "+">>, <<">">>, <<">", "-">>, <<">", "+">> }

\* re.match(r'^(\s*description:\s*)(.*)$', line) succeeds
desc_match(line) == startswith(lstrip(line), DESCRIPTION_KEY)

\* group 1 of the match: indentation, key, and all whitespace after the key
desc_prefix(line) ==
  LET n == LeadingIn(line, WS) + Len(DESCRIPTION_KEY)
  IN  SubSeq(line, 1, n + LeadingIn(From(line, n), WS))

\* group 2 of the match: the rest of the line
desc_value(line) == From(line, Len(desc_prefix(line)))

\* len(line) - len(line.lstrip())
indent_of(line) == Len(line) - Len(lstrip(line))

\* the locals after lines 100-105, for the file text content
scan_start(content) ==
  [ lines |-> split_nl(content), new_lines |-> <<>>, i |-> 0, modified |-> FALSE,
    block_start |-> 0, base_indent |-> 0, pc |-> "ScanningLine", fix_calls |-> <<>> ]

\* pass_line without "i += 1"
pass_line_without_advance(st) ==
  [st EXCEPT !.new_lines = Append(st.new_lines, st.lines[st.i + 1])]

\* a line that is copied: new_lines.append(line); i += 1
pass_line(st) ==
  [st EXCEPT !.new_lines = Append(st.new_lines, st.lines[st.i + 1]), !.i = st.i + 1]

\* inline_line with "modified = True" outside the test of line 171
inline_line_always_modified(st, rule) ==
  LET line == st.lines[st.i + 1]
      value == desc_value(line)
      fixed_value == rule_fix(rule, value)
  IN  [st EXCEPT
         !.fix_calls = Append(st.fix_calls, value),
         !.modified = TRUE,
         !.new_lines = Append(st.new_lines,
                         IF fixed_value # value THEN desc_prefix(line) \o fixed_value
                         ELSE line),
         !.i = st.i + 1]

\* lines 169-176: an inline description
inline_line(st, rule) ==
  LET line == st.lines[st.i + 1]
      value == desc_value(line)
      fixed_value == rule_fix(rule, value)
  IN  [st EXCEPT
         !.fix_calls = Append(st.fix_calls, value),
         !.modified = st.modified \/ fixed_value # value,
         !.new_lines = Append(st.new_lines,
                         IF fixed_value # value THEN desc_prefix(line) \o fixed_value
                         ELSE line),
         !.i = st.i + 1]

\* lines 116-121: a description key that opens a block
block_open(st) ==
  [st EXCEPT
     !.new_lines = Append(st.new_lines, st.lines[st.i + 1]),
     !.i = st.i + 1,
     !.block_start = st.i + 1,
     !.base_indent = indent_of(st.lines[st.i + 1]),
     !.pc = "InBlockScalar"]

\* lines 108-182: one turn of the outer loop
scan_line(st, rule) ==
  LET line == st.lines[st.i + 1]
  IN  IF contains(line, DESCRIPTION_KEY) /\ desc_match(line)
      THEN IF desc_value(line) = <<>> \/ desc_value(line) \in BLOCK_INDICATORS
           THEN block_open(st)
           ELSE inline_line(st, rule)
      ELSE pass_line(st)

\* lines 124-139: the inner loop goes on with the line at i (it does not break)
block_continues(st) ==
  IF st.i >= Len(st.lines) THEN FALSE
  ELSE LET next_line == st.lines[st.i + 1]
       IN  IF strip(next_line) = <<>> THEN TRUE
           ELSE IF next_line[1] \notin WS THEN FALSE
           ELSE IF indent_of(next_line) <= st.base_indent /\ lstrip(next_line) # <<>>
                THEN ~contains(next_line, <<":">>)
                ELSE TRUE

\* lines 146-150: the block's lines without their indentation
strip_block_line(bl, block_indent) ==
  IF strip(bl) # <<>>
  THEN IF Len(bl) > block_indent THEN From(bl, block_indent) ELSE lstrip(bl)
  ELSE <<>>

\* lines 160-164: a fixed line with the block's indentation
indent_block_line(fl, block_indent) ==
  IF fl # <<>> THEN spaces_of(block_indent) \o fl ELSE <<>>

\* new_lines[block_start:]
block_lines_of(st) == From(st.new_lines, st.block_start)

\* lines 141-167: the inner loop is left; the block is fixed and spliced
block_end(st, rule) ==
  LET block_lines == block_lines_of(st)
      block_indent == st.base_indent + 2
      stripped_lines ==
        [k \in 1..Len(block_lines) |-> strip_block_line(block_lines[k], block_indent)]
      block_content == rstrip(join_nl(stripped_lines))
      fixed_block == rule_fix(rule, block_content)
      fixed_lines == split_nl(fixed_block)
      new_block_lines ==
        [k \in 1..Len(fixed_lines) |-> indent_block_line(fixed_lines[k], block_indent)]
  IN  IF stripped_lines = <<>>
      THEN [st EXCEPT !.pc = "ScanningLine"]
      ELSE IF fixed_block # block_content
      THEN [st EXCEPT
              !.fix_calls = Append(st.fix_calls, block_content),
              !.modified = TRUE,
              !.new_lines = Upto(st.new_lines, st.block_start) \o new_block_lines,
              !.pc = "ScanningLine"]
      ELSE [st EXCEPT
              !.fix_calls = Append(st.fix_calls, block_content),
              !.pc = "ScanningLine"]

\* one step of the scan
scan_step(st, rule) ==
  IF st.pc = "ScanningLine"
  THEN IF st.i < Len(st.lines) THEN scan_line(st, rule) ELSE [st EXCEPT !.pc = "Done"]
  ELSE IF block_continues(st) THEN pass_line(st) ELSE block_end(st, rule)

\* the scan run to the end of the file
RECURSIVE scan_run(_, _)
scan_run(st, rule) == IF st.pc = "Done" THEN st ELSE scan_run(scan_step(st, rule), rule)

\* lines 184-188: the text the file holds after the call
written_text(st, content) == IF st.modified THEN join_nl(st.new_lines) ELSE content

(***************************************************************************)
(* The state.                                                              *)
(***************************************************************************)
VARIABLES
  rule,         \* args.rule: the name of the rule of the run
  \* ---- one call of fix_yaml_file_in_place on one file
  file,         \* the text of the file at path, on disk
  input,        \* the text the current call read (line 100)
  lines, new_lines, i, modified, block_start, base_indent,
  pc,           \* where the call is: "ScanningLine", "InBlockScalar", "Done", "Returned"
  fix_calls,    \* the texts the current call handed to fix_fn
  writes,       \* the number of path.write_text calls of the current call
  ret,          \* the value the call returned
  pass,         \* the number of the call on this file: 1, 2, ...
  \* ---- a rule applied to one text
  text,         \* the text x
  fixed,        \* fix(x)
  refixed,      \* fix(fix(x))
  valid,        \* the last result of check
  rpc,          \* "start", "checked", "fixed", "refixed", "fixed_checked"
  \* ---- one run of main
  fix_flag,     \* args.fix
  n_files,      \* len(schema_files)
  fi,           \* the position of path in schema_files, from 1
  data_kind,    \* what load_yaml(path) gave: "unparseable", "sequence", "mapping"
  n_nodes,      \* len(nodes)
  ni,           \* the position of node in nodes, from 1
  desc,         \* node.get("description")
  n_cols,       \* len(iter_column_dicts(node))
  ci,           \* the position of col in the node's columns, from 1
  cdesc,        \* col.get("description")
  errors,       \* the list errors
  io,           \* the file system calls made so far, in order
  exit_code,    \* the value main returned, -1 before it returns
  mpc           \* where main is: "start", "file", "node", "column", "exit", "raised"

scanVars ==
  <<file, input, lines, new_lines, i, modified, block_start, base_indent, pc,
    fix_calls, writes, ret, pass>>

ruleVars == <<text, fixed, refixed, valid, rpc>>

mainVars ==
  <<fix_flag, n_files, fi, data_kind, n_nodes, ni, desc, n_cols, ci, cdesc, errors,
    io, exit_code, mpc>>

vars == <<rule, scanVars, ruleVars, mainVars>>

(***************************************************************************)
(* The inputs of the model.                                                *)
(***************************************************************************)
RECURSIVE SeqsUpTo(_, _)
SeqsUpTo(S, n) ==
  IF n = 0 THEN { <<>> }
  ELSE LET shorter == SeqsUpTo(S, n - 1)
       IN  shorter \cup { Append(q, e) : q \in shorter, e \in S }

\* the files: up to MaxLines lines, each out of LinePool
MaxLines == 4
\* the calls of fix_yaml_file_in_place on one file
MaxPasses == 2

LinePool ==
  { <<>>,
    <<"n", ":", " ", "x">>,
    DESCRIPTION_KEY \o <<" ", "a", "b">>,
    DESCRIPTION_KEY \o <<" ", "|">>,
    DESCRIPTION_KEY,
    <<" ", " ", "a", "b">>,
    DESCRIPTION_KEY \o <<" ", "-", " ", ".", ".">>,
    DESCRIPTION_KEY \o <<" ", "|", "2">>,
    <<" ", " ">> \o DESCRIPTION_KEY,
    DESCRIPTION_KEY \o <<" ", "\"", "a", "b", "\"">> }

FileTexts == { join_nl(ls) : ls \in SeqsUpTo(LinePool, MaxLines) \ { <<>> } }

\* the texts a rule is applied to: up to MaxTextLen characters of Alphabet
MaxTextLen == 4
Alphabet == {"a", "A", ".", "-", " ", "\n", "'", "\t"}
Texts == SeqsUpTo(Alphabet, MaxTextLen)

\* the run of main: files, entries per file, columns per entry
MaxFiles == 2
MaxNodes == 2
MaxCols == 2

\* node.get("description") of an entry without the key
None == <<"None">>
\* a description every rule accepts, and one every rule rejects
GoodText == <<"A", " ", "b", ".">>
BadText == <<"x", " ", " ", "$">>
DescPool == { None, <<>>, GoodText, BadText }

\* the texts of the files main fixes
MainTexts == { DESCRIPTION_KEY \o <<" ", "a", "b">>, <<"n", ":", " ", "x">> }

(***************************************************************************)
(* The parts of the state a specification does not use stay as they are.    *)
(***************************************************************************)
ScanIdle ==
  /\ file = <<>> /\ input = <<>> /\ lines = <<>> /\ new_lines = <<>> /\ i = 0
  /\ modified = FALSE /\ block_start = 0 /\ base_indent = 0 /\ pc = "idle"
  /\ fix_calls = <<>> /\ writes = 0 /\ ret = FALSE /\ pass = 0

RuleIdle ==
  /\ text = <<>> /\ fixed = <<>> /\ refixed = <<>> /\ valid = FALSE /\ rpc = "idle"

MainIdle ==
  /\ fix_flag = FALSE /\ n_files = 0 /\ fi = 0 /\ data_kind = "none" /\ n_nodes = 0
  /\ ni = 0 /\ desc = None /\ n_cols = 0 /\ ci = 0 /\ cdesc = None /\ errors = <<>>
  /\ io = <<>> /\ exit_code = -1 /\ mpc = "idle"

(***************************************************************************)
(* Spec: fix_yaml_file_in_place on one file, called once and then again.    *)
(***************************************************************************)
\* the locals of the call as a scan record, and back
Cur ==
  [ lines |-> lines, new_lines |-> new_lines, i |-> i, modified |-> modified,
    block_start |-> block_start, base_indent |-> base_indent, pc |-> pc,
    fix_calls |-> fix_calls ]

Becomes(st) ==
  /\ lines' = st.lines
  /\ new_lines' = st.new_lines
  /\ i' = st.i
  /\ modified' = st.modified
  /\ block_start' = st.block_start
  /\ base_indent' = st.base_indent
  /\ pc' = st.pc
  /\ fix_calls' = st.fix_calls

Init ==
  /\ rule \in { r \in RULES : has_fix(r) }
  /\ file \in FileTexts
  /\ pass = 1
  /\ input = file
  /\ lines = scan_start(file).lines
  /\ new_lines = scan_start(file).new_lines
  /\ i = scan_start(file).i
  /\ modified = scan_start(file).modified
  /\ block_start = scan_start(file).block_start
  /\ base_indent = scan_start(file).base_indent
  /\ pc = scan_start(file).pc
  /\ fix_calls = scan_start(file).fix_calls
  /\ writes = 0
  /\ ret = FALSE
  /\ RuleIdle
  /\ MainIdle

\* lines 107-182, outer loop: one line is examined
ScanningLine ==
  /\ pc = "ScanningLine"
  /\ i < Len(lines)
  /\ Becomes(scan_line(Cur, rule))
  /\ UNCHANGED <<rule, file, input, writes, ret, pass, ruleVars, mainVars>>

\* line 107: the outer loop ends
ScanEnd ==
  /\ pc = "ScanningLine"
  /\ i >= Len(lines)
  /\ Becomes(scan_step(Cur, rule))
  /\ UNCHANGED <<rule, file, input, writes, ret, pass, ruleVars, mainVars>>

\* lines 124-139, inner loop: one line is collected into the block
InBlockScalar ==
  /\ pc = "InBlockScalar"
  /\ block_continues(Cur)
  /\ Becomes(pass_line(Cur))
  /\ UNCHANGED <<rule, file, input, writes, ret, pass, ruleVars, mainVars>>

\* lines 124-167: the inner loop is left and the block is fixed
BlockEnd ==
  /\ pc = "InBlockScalar"
  /\ ~block_continues(Cur)
  /\ Becomes(block_end(Cur, rule))
  /\ UNCHANGED <<rule, file, input, writes, ret, pass, ruleVars, mainVars>>

\* lines 184-188: the file is written if modified, and the call returns
Return ==
  /\ pc = "Done"
  /\ file' = written_text(Cur, input)
  /\ writes' = IF modified THEN writes + 1 ELSE writes
  /\ ret' = modified
  /\ pc' = "Returned"
  /\ UNCHANGED <<rule, input, lines, new_lines, i, modified, block_start, base_indent,
                 fix_calls, pass, ruleVars, mainVars>>

\* the tool is run again on the same file: lines 100-105 of the next call
CallAgain ==
  /\ pc = "Returned"
  /\ pass < MaxPasses
  /\ pass' = pass + 1
  /\ input' = file
  /\ Becomes(scan_start(file))
  /\ writes' = 0
  /\ ret' = FALSE
  /\ UNCHANGED <<rule, file, ruleVars, mainVars>>

Next ==
  \/ ScanningLine
  \/ ScanEnd
  \/ InBlockScalar
  \/ BlockEnd
  \/ Return
  \/ CallAgain

Spec == Init /\ [][Next]_vars

(***************************************************************************)
(* SpecRules: one rule applied to one text.                                 *)
(***************************************************************************)
InitRules ==
  /\ rule \in RULES
  /\ text \in Texts
  /\ fixed = <<>> /\ refixed = <<>> /\ valid = FALSE /\ rpc = "start"
  /\ ScanIdle
  /\ MainIdle

\* check(x)
Check ==
  /\ rpc = "start"
  /\ valid' = rule_check(rule, text)
  /\ rpc' = "checked"
  /\ UNCHANGED <<rule, text, fixed, refixed, scanVars, mainVars>>

\* fix(x), for a rule that has a fix
Fix ==
  /\ rpc = "start"
  /\ has_fix(rule)
  /\ fixed' = rule_fix(rule, text)
  /\ rpc' = "fixed"
  /\ UNCHANGED <<rule, text, refixed, valid, scanVars, mainVars>>

\* fix(fix(x))
FixAgain ==
  /\ rpc = "fixed"
  /\ refixed' = rule_fix(rule, fixed)
  /\ rpc' = "refixed"
  /\ UNCHANGED <<rule, text, fixed, valid, scanVars, mainVars>>

\* check(fix(x))
CheckFixed ==
  /\ rpc = "fixed"
  /\ valid' = rule_check(rule, fixed)
  /\ rpc' = "fixed_checked"
  /\ UNCHANGED <<rule, text, fixed, refixed, scanVars, mainVars>>

NextRules == Check \/ Fix \/ FixAgain \/ CheckFixed

SpecRules == InitRules /\ [][NextRules]_vars

(***************************************************************************)
(* SpecMain: one run of runner.main.  What the run reads of its            *)
(* environment (the files found, what each file parses to, each           *)
(* description) is drawn when the run reads it.                            *)
(***************************************************************************)
\* the entries of errors
ParseError(f) == [path |-> f, kind |-> "Could not parse YAML", node |-> 0, col |-> 0]
ModelError(f, n) == [path |-> f, kind |-> "Model", node |-> n, col |-> 0]
ColumnError(f, n, c) == [path |-> f, kind |-> "Column", node |-> n, col |-> c]

\* runner.validate_text
validate_text(r, t) == IF t = None \/ t = <<>> THEN TRUE ELSE rule_check(r, t)

\* lines 240 and 247: "if desc and not validate_text(check_fn, desc)"
fails_rule(r, t) == (t # None /\ t # <<>>) /\ ~validate_text(r, t)

\* fix_unsupported without the test of lines 213-215
fix_unsupported_never(flag, r) == FALSE

\* lines 213-215: --fix with a rule that has no callable fix
fix_unsupported(flag, r) == flag /\ ~has_fix(r)

\* line 226: what fix_yaml_file_in_place does to the file system for path f
fix_io(f, content, r) ==
  IF scan_run(scan_start(content), r).modified
  THEN << <<"read", f>>, <<"write", f>> >>
  ELSE << <<"read", f>> >>

InitMain ==
  /\ rule \in RULES
  /\ fix_flag \in BOOLEAN
  /\ n_files = 0 /\ fi = 0 /\ data_kind = "none" /\ n_nodes = 0
  /\ ni = 0 /\ desc = None /\ n_cols = 0 /\ ci = 0 /\ cdesc = None /\ errors = <<>>
  /\ io = <<>> /\ exit_code = -1 /\ mpc = "start"
  /\ ScanIdle
  /\ RuleIdle

\* lines 213-215: the rule has no fix; main returns 2
RejectFix ==
  /\ mpc = "start"
  /\ fix_unsupported(fix_flag, rule)
  /\ exit_code' = 2
  /\ mpc' = "exit"
  /\ UNCHANGED <<rule, fix_flag, n_files, fi, data_kind, n_nodes, ni, desc, n_cols, ci,
                 cdesc, errors, io, scanVars, ruleVars>>

\* lines 217-221: the schema files are listed; none means return 0
Discover ==
  /\ mpc = "start"
  /\ ~fix_unsupported(fix_flag, rule)
  /\ \E n \in 0..MaxFiles :
       /\ n_files' = n
       /\ fi' = 1
       /\ exit_code' = IF n = 0 THEN 0 ELSE exit_code
       /\ mpc' = IF n = 0 THEN "exit" ELSE "file"
  /\ io' = Append(io, <<"list", 0>>)
  /\ UNCHANGED <<rule, fix_flag, data_kind, n_nodes, ni, desc, n_cols, ci, cdesc, errors,
                 scanVars, ruleVars>>

\* lines 224-226: fix mode, one file
FixFile ==
  /\ mpc = "file"
  /\ fi <= n_files
  /\ fix_flag
  /\ \E content \in MainTexts : io' = io \o fix_io(fi, content, rule)
  /\ fi' = fi + 1
  /\ UNCHANGED <<rule, fix_flag, n_files, data_kind, n_nodes, ni, desc, n_cols, ci, cdesc,
                 errors, exit_code, mpc, scanVars, ruleVars>>

\* lines 228-234: validate mode, one file is loaded.  A text that is no YAML
\* raises in load_yaml, inside the try; a top-level sequence has no get(), so
\* iter_nodes raises outside the try and the exception leaves main
LoadFile ==
  /\ mpc = "file"
  /\ fi <= n_files
  /\ ~fix_flag
  /\ \E kind \in {"unparseable", "sequence", "mapping"}, n \in 0..MaxNodes :
       /\ data_kind' = kind
       /\ n_nodes' = IF kind = "mapping" THEN n ELSE 0
       /\ errors' = IF kind = "unparseable" THEN Append(errors, ParseError(fi)) ELSE errors
       /\ fi' = IF kind = "unparseable" THEN fi + 1 ELSE fi
       /\ ni' = IF kind = "mapping" THEN 1 ELSE ni
       /\ mpc' = CASE kind = "unparseable" -> "file"
                   [] kind = "sequence" -> "raised"
                   [] kind = "mapping" -> "node"
  /\ io' = Append(io, <<"read", fi>>)
  /\ UNCHANGED <<rule, fix_flag, n_files, desc, n_cols, ci, cdesc, exit_code,
                 scanVars, ruleVars>>

\* lines 236-241: one entry and its description
CheckNode ==
  /\ mpc = "node"
  /\ ni <= n_nodes
  /\ \E d \in DescPool, c \in 0..MaxCols :
       /\ desc' = d
       /\ n_cols' = c
       /\ errors' = IF fails_rule(rule, d) THEN Append(errors, ModelError(fi, ni)) ELSE errors
  /\ ci' = 1
  /\ mpc' = "column"
  /\ UNCHANGED <<rule, fix_flag, n_files, fi, data_kind, n_nodes, ni, cdesc, io, exit_code,
                 scanVars, ruleVars>>

\* line 236: the entries of the file are done
NodesEnd ==
  /\ mpc = "node"
  /\ ni > n_nodes
  /\ fi' = fi + 1
  /\ mpc' = "file"
  /\ UNCHANGED <<rule, fix_flag, n_files, data_kind, n_nodes, ni, desc, n_cols, ci, cdesc,
                 errors, io, exit_code, scanVars, ruleVars>>

\* CheckColumn with errors.insert(0, ...) for errors.append(...)
CheckColumn_prepends ==
  /\ mpc = "column"
  /\ ci <= n_cols
  /\ \E d \in DescPool :
       /\ cdesc' = d
       /\ errors' = IF fails_rule(rule, d) THEN <<ColumnError(fi, ni, ci)>> \o errors
                    ELSE errors
  /\ ci' = ci + 1
  /\ UNCHANGED <<rule, fix_flag, n_files, fi, data_kind, n_nodes, ni, desc, n_cols, io,
                 exit_code, mpc, scanVars, ruleVars>>

\* lines 243-248: one column and its description
CheckColumn ==
  /\ mpc = "column"
  /\ ci <= n_cols
  /\ \E d \in DescPool :
       /\ cdesc' = d
       /\ errors' = IF fails_rule(rule, d) THEN Append(errors, ColumnError(fi, ni, ci))
                    ELSE errors
  /\ ci' = ci + 1
  /\ UNCHANGED <<rule, fix_flag, n_files, fi, data_kind, n_nodes, ni, desc, n_cols, io,
                 exit_code, mpc, scanVars, ruleVars>>

\* line 243: the columns of the entry are done
ColumnsEnd ==
  /\ mpc = "column"
  /\ ci > n_cols
  /\ ni' = ni + 1
  /\ mpc' = "node"
  /\ UNCHANGED <<rule, fix_flag, n_files, fi, data_kind, n_nodes, desc, n_cols, ci, cdesc,
                 errors, io, exit_code, scanVars, ruleVars>>

\* lines 250-255: the files are done; 1 if there are errors, else 0
Finish ==
  /\ mpc = "file"
  /\ fi > n_files
  /\ exit_code' = IF errors # <<>> THEN 1 ELSE 0
  /\ mpc' = "exit"
  /\ UNCHANGED <<rule, fix_flag, n_files, fi, data_kind, n_nodes, ni, desc, n_cols, ci,
                 cdesc, errors, io, scanVars, ruleVars>>

NextMain ==
  \/ RejectFix
  \/ Discover
  \/ FixFile
  \/ LoadFile
  \/ CheckNode
  \/ NodesEnd
  \/ CheckColumn
  \/ ColumnsEnd
  \/ Finish

SpecMain == InitMain /\ [][NextMain]_vars

(***************************************************************************)
(* What the claims speak of.                                               *)
(***************************************************************************)
\* a description key line whose value is on the following lines
opens_block(line) ==
  desc_match(line) /\ (desc_value(line) = <<>> \/ desc_value(line) \in BLOCK_INDICATORS)

\* the last line of the value of the key at line k of ls: the following lines
\* that are blank or indented deeper than the key, up to the last one that is
\* not blank; k itself when there is none
span_last(ls, k) ==
  LET deeper(j) == strip(ls[j]) = <<>> \/ indent_of(ls[j]) > indent_of(ls[k])
      run == { j \in (k + 1)..Len(ls) : \A m \in (k + 1)..j : deeper(m) }
      content == { j \in run : strip(ls[j]) # <<>> }
  IN  IF content = {} THEN k
      ELSE CHOOSE j \in content : \A m \in content : m <= j

\* the lines ls from line k on with every description value taken out: of an
\* inline description the prefix stays, of a block description the key line
RECURSIVE outside_spans(_, _)
outside_spans(ls, k) ==
  IF k > Len(ls) THEN <<>>
  ELSE IF opens_block(ls[k]) THEN <<ls[k]>> \o outside_spans(ls, span_last(ls, k) + 1)
  ELSE IF desc_match(ls[k]) THEN <<desc_prefix(ls[k])>> \o outside_spans(ls, k + 1)
  ELSE <<ls[k]>> \o outside_spans(ls, k + 1)

\* some text handed to fix_fn in this call came back changed
SomeValueChanged ==
  \E k \in 1..Len(fix_calls) : rule_fix(rule, fix_calls[k]) # fix_calls[k]

\* C1: when the call has returned, the file differs from the text it read only
\* inside the values of description keys: with the values taken out, the two
\* are the same lines in the same order.
C1_OnlyDescriptionValuesChange ==
  pc = "Returned" =>
    outside_spans(split_nl(file), 1) = outside_spans(split_nl(input), 1)

\* C2: a call writes the file at most once, and only when it returns; it has
\* written exactly when some description value was changed by the fix; the
\* returned flag says whether it wrote; without a write the file is the text
\* that was read.
C2_WritesIffValueChanged ==
  /\ writes <= 1
  /\ pc # "Returned" => (writes = 0 /\ file = input)
  /\ pc = "Returned" =>
       /\ (writes = 1) <=> SomeValueChanged
       /\ ret = (writes = 1)
       /\ writes = 0 => file = input

\* a returned call that wrote, having also met a description it left alone
C2_Witness ==
  /\ pc = "Returned"
  /\ writes = 1
  /\ ret
  /\ \E k \in 1..Len(fix_calls) : rule_fix(rule, fix_calls[k]) = fix_calls[k]

\* C3: with the period rule, the second call on a file changes no
\* description, writes nothing and returns false.
C3_SecondPassChangesNothing ==
  (rule = "period" /\ pass = 2 /\ pc = "Returned") =>
    (writes = 0 /\ ~ret /\ ~SomeValueChanged /\ file = input)

\* C6: the empty text is never handed to the fix function.
C6_EmptyNeverHandedToFix ==
  \A k \in 1..Len(fix_calls) : fix_calls[k] # <<>>

\* a block header with an explicit indentation indicator, or a flow-style value
unsupported_value(v) ==
  \/ /\ Len(v) \in {2, 3}
     /\ v[1] \in {"|", ">"}
     /\ v[2] \in {"1", "2", "3", "4", "5", "6", "7", "8", "9"}
     /\ Len(v) = 3 => v[3] \in {"+", "-"}
  \/ /\ Len(v) >= 1
     /\ v[1] \in {"[", "{"}

\* C10: a description written in an unsupported form is still in the file when
\* the call has returned, its key line and its content lines as they were.
C10_UnsupportedFormUntouched ==
  pc = "Returned" =>
    LET inl == split_nl(input)
        outl == split_nl(file)
    IN  \A k \in 1..Len(inl) :
          (desc_match(inl[k]) /\ unsupported_value(desc_value(inl[k]))) =>
            \E m \in 1..Len(outl) :
              /\ m + (span_last(inl, k) - k) <= Len(outl)
              /\ SubSeq(outl, m, m + (span_last(inl, k) - k)) = SubSeq(inl, k, span_last(inl, k))

\* C4: fix(fix(x)) = fix(x) for every rule that has a fix.
C4_FixIdempotent == rpc = "refixed" => refixed = fixed

\* C5: check(fix(x)) is true for every rule that has a fix.
C5_FixedTextIsValid == rpc = "fixed_checked" => valid

\* C7: --fix with a rule that has no fix (article, symbols) returns 2 before
\* any file is listed, read or written; with capital, period or spaces the run
\* lists the files, reads every one of them and does not return 2.
C7_FixWithoutFixRejected ==
  /\ (fix_flag /\ rule \in {"article", "symbols"}) =>
       /\ mpc \in {"start", "exit"}
       /\ io = <<>>
       /\ mpc = "exit" => exit_code = 2
  /\ (fix_flag /\ rule \in {"capital", "period", "spaces"} /\ mpc = "exit") =>
       /\ exit_code = 0
       /\ io # <<>> /\ io[1] = <<"list", 0>>
       /\ \A f \in 1..n_files : \E k \in 1..Len(io) : io[k] = <<"read", f>>

\* main has returned 2 for --fix with the article rule
C7_Witness ==
  fix_flag /\ rule = "article" /\ mpc = "exit" /\ exit_code = 2

\* C8: in validate mode a file that is no mapping of models/sources leaves
\* exactly one "could not parse" error, the last of the list, and the run goes
\* on to the next file.
C8_BadFileRecordedAndSkipped ==
  (~fix_flag /\ data_kind \in {"unparseable", "sequence"}) =>
    /\ mpc \in {"file", "exit"}
    /\ errors # <<>>
    /\ errors[Len(errors)] = ParseError(fi - 1)

\* the place of an error in the run: file, entry, column (0: the entry itself)
ErrorBefore(e1, e2) ==
  \/ e1.path < e2.path
  \/ e1.path = e2.path /\ e1.node < e2.node
  \/ e1.path = e2.path /\ e1.node = e2.node /\ e1.col < e2.col

\* C9: a step only ever appends to errors, at most one error, and the new
\* error lies after every earlier one (file, then entry, then the entry's own
\* description before its columns in column order); looking at an entry or a
\* column appends exactly one error when its description is non-empty and fails
\* the rule, and none otherwise.
C9_ErrorsAppendOnlyInOrder ==
  [][ /\ \/ errors' = errors
         \/ /\ Len(errors') = Len(errors) + 1
            /\ SubSeq(errors', 1, Len(errors)) = errors
            /\ \A k \in 1..Len(errors) : ErrorBefore(errors[k], errors'[Len(errors')])
      /\ (mpc = "node" /\ mpc' = "column") =>
           errors' = IF desc' \notin {None, <<>>} /\ ~rule_check(rule, desc')
                     THEN Append(errors, ModelError(fi, ni))
                     ELSE errors
      /\ (mpc = "column" /\ mpc' = "column") =>
           errors' = IF cdesc' \notin {None, <<>>} /\ ~rule_check(rule, cdesc')
                     THEN Append(errors, ColumnError(fi, ni, ci))
                     ELSE errors
    ]_vars

\* two files with errors: an entry's own error, then its column's, then one of
\* the second file
C9_Witness ==
  /\ Len(errors) >= 3
  /\ errors[1] = ModelError(1, 1)
  /\ errors[2].kind = "Column" /\ errors[2].node = 1
  /\ errors[Len(errors)].path = 2

\* the upper-case letters, as the claims name them
UPPERCASE ==
  {"A", "B", "C", "D", "E", "F", "G", "H", "I", "J", "K", "L", "M",
   "N", "O", "P", "Q", "R", "S", "T", "U", "V", "W", "X", "Y", "Z"}

\* C11: capital.check(text) is true exactly when the text without its leading
\* whitespace is empty or starts with an upper-case character.
C11_CapitalCheck ==
  (rpc = "checked" /\ rule = "capital") =>
    (valid <=> (lstrip(text) = <<>> \/ lstrip(text)[1] \in UPPERCASE))

\* the positions at which two texts of one length differ
DiffPositions(a, b) == { p \in 1..Len(a) : a[p] # b[p] }

\* C12: capital.fix keeps the leading whitespace and the length of the text and
\* changes at most the first character after the leading whitespace.
C12_CapitalFixInPlace ==
  (rpc = "fixed" /\ rule = "capital") =>
    /\ Len(fixed) = Len(text)
    /\ LeadingIn(fixed, WS) = LeadingIn(text, WS)
    /\ DiffPositions(text, fixed) \subseteq { LeadingIn(text, WS) + 1 }

\* a text with every run of two or more spaces or tabs replaced by one space
RECURSIVE collapse_runs(_)
collapse_runs(s) ==
  IF s = <<>> THEN <<>>
  ELSE IF s[1] \in HSPACE
       THEN LET n == LeadingIn(s, HSPACE)
            IN  (IF n >= 2 THEN <<" ">> ELSE <<s[1]>>) \o collapse_runs(From(s, n))
       ELSE <<s[1]>> \o collapse_runs(Tail(s))

\* the part of a line after its leading spaces and tabs
after_indentation(line) == From(line, LeadingIn(line, HSPACE))

\* a line has a run of two or more spaces or tabs after its indentation
has_inner_run(line) ==
  LET rest == after_indentation(line)
  IN  \E p \in 1..(Len(rest) - 1) : rest[p] \in HSPACE /\ rest[p + 1] \in HSPACE

\* a line with its indentation kept and every later run collapsed
collapse_line(line) ==
  Upto(line, LeadingIn(line, HSPACE)) \o collapse_runs(after_indentation(line))

\* C13: spaces.check is true exactly when no line has a run of two or more
\* spaces or tabs after its leading whitespace, and spaces.fix collapses each
\* such run to one space and leaves every line's leading whitespace untouched.
C13_SpacesIgnoreIndentation ==
  /\ (rpc = "checked" /\ rule = "spaces") =>
       (valid <=> \A k \in 1..Len(split_nl(text)) : ~has_inner_run(split_nl(text)[k]))
  /\ (rpc = "fixed" /\ rule = "spaces") =>
       fixed = join_nl([k \in 1..Len(split_nl(text)) |-> collapse_line(split_nl(text)[k])])

\* the non-blank lines of a text, each without its trailing whitespace
nonblank_lines(t) ==
  LET keep == SelectSeq(split_nl(t), LAMBDA l : strip(l) # <<>>)
  IN  [k \in 1..Len(keep) |-> rstrip(keep[k])]

\* the non-blank lines with a period added to the last one when it has none
with_final_period(nb) ==
  IF endswith(nb[Len(nb)], <<".">>) THEN nb
  ELSE [nb EXCEPT ![Len(nb)] = nb[Len(nb)] \o <<".">>]

\* text the period rule has to end with a period
needs_period_handling(t) ==
  /\ ~_contains_list_items(t)
  /\ strip(t) # <<>>
  /\ strip(t) \notin { <<"'", "'">>, <<"\"", "\"">> }

\* C14: on text without list items that is neither blank nor a quoted empty
\* string, period.fix adds "." to the last non-blank line when it has none and
\* leaves the other non-blank lines as they are; no blank line becomes content.
C14_PeriodOnLastNonBlankLine ==
  (rpc = "fixed" /\ rule = "period" /\ needs_period_handling(text)) =>
    nonblank_lines(fixed) = with_final_period(nonblank_lines(text))

\* number of periods in a text
periods(t) == Cardinality({ p \in 1..Len(t) : t[p] = "." })

\* the last line of a text with content, its trailing line breaks aside
last_line(t) == splitlines(rstrip_nl(t))[Len(splitlines(rstrip_nl(t)))]

C16_BlockLinesDeeperThanKey ==
  pc = "InBlockScalar" =>
    \A k \in (block_start + 1)..i :
      strip(lines[k]) = <<>> \/ indent_of(lines[k]) > base_indent

\* the scan is in one of its two loops
InScan == pc \in {"ScanningLine", "InBlockScalar"}

\* what is left to do: two per unread line, one more inside a block
ScanRank == 2 * (Len(lines) - i) + (IF pc = "InBlockScalar" THEN 1 ELSE 0)

\* a step of the scan reads exactly the next line or leaves its loop, what
\* is left to do shrinks, and the index stays within the lines
ScanStepAdvances ==
  InScan =>
    /\ lines' = lines
    /\ (pc = "ScanningLine" /\ i < Len(lines)) => (i' = i + 1 /\ InScan')
    /\ (pc = "ScanningLine" /\ i >= Len(lines)) => (i' = i /\ pc' = "Done")
    /\ pc = "InBlockScalar" =>
         \/ i' = i + 1 /\ pc' = "InBlockScalar"
         \/ i' = i /\ pc' = "ScanningLine"
    /\ InScan' => (ScanRank' < ScanRank /\ ScanRank' >= 0)
    /\ 0 <= i' /\ i' <= Len(lines)
    /\ pc' = "Done" => i' = Len(lines)

\* C17: the scan terminates in Done: every step of the two loops reads exactly
\* the next line or leaves its loop, so what is left to do shrinks with every
\* step; the index never passes the end, InBlockScalar is left only for
\* ScanningLine, and Done is entered only when every line has been read.
C17_ScanTerminates == [][ScanStepAdvances]_vars

\* a scan over three lines, one of them read inside a block, has reached Done
C17_Witness ==
  /\ pc = "Done" /\ pass = 1 /\ i = 3
  /\ lines = << DESCRIPTION_KEY \o <<" ", "|">>, <<" ", " ", "a", "b">>, <<"n", ":", " ", "x">> >>

\* a value enclosed in a pair of the same quote character
quoted_with(v, q) == Len(v) >= 2 /\ v[1] = q /\ v[Len(v)] = q
QUOTES == {"'", "\""}

\* an inline description line whose value is quoted
quoted_inline(line) ==
  /\ desc_match(line)
  /\ \E q \in QUOTES : quoted_with(desc_value(line), q)

\* C18: when the scan rewrites an inline description whose value is enclosed
\* in matching quotes, the value written still starts and ends with that quote.
C18_QuotedValueStaysQuoted ==
  [][ (pc = "ScanningLine" /\ i < Len(lines) /\ quoted_inline(lines[i + 1])) =>
        \A q \in QUOTES :
          quoted_with(desc_value(lines[i + 1]), q) =>
            quoted_with(desc_value(new_lines'[Len(new_lines')]), q) ]_vars
=============================================================================
